---------------------------- MODULE Spec2Model ----------------------------
(***************************************************************************)
(* OrbitCamera (src/src/OrbitCamera.h) and the host code that drives it    *)
(* (src/src/main.cpp).                                                     *)
(*                                                                         *)
(* Every camera field is a C++ float.  A float is modelled as a binary     *)
(* floating-point number with round-to-nearest-even, signed infinities and *)
(* NaN, exactly as IEEE-754 binary32 computes, except that the significand *)
(* holds Precision bits instead of 24 (TLC's integers are 32 bits wide, so *)
(* the product of two 24-bit significands cannot be formed).  Rounding,    *)
(* absorption in additions, overflow to infinity, underflow to zero and    *)
(* NaN propagation therefore happen in the model where they happen in the  *)
(* program, at a coarser grain.                                            *)
(***************************************************************************)
EXTENDS Integers, Sequences, FiniteSets, TLC

\* number of significand bits of the modelled float
Precision == 12
\* binary32: least exponent of the unit in the last place (denormals)
Emin == -149
\* binary32: exponent of the largest binade
Emax == 127
\* longest sequence of calls explored
MaxCalls == 2

(***************************************************************************)
(* Floats.  A finite value is m * 2^e with m odd (zero is m = 0, e = 0).   *)
(***************************************************************************)
NaN == [k |-> "nan", m |-> 0, e |-> 0]
PInf == [k |-> "inf", m |-> 1, e |-> 0]
NInf == [k |-> "inf", m |-> -1, e |-> 0]
Zero == [k |-> "fin", m |-> 0, e |-> 0]

Abs(n) == IF n < 0 THEN -n ELSE n
Max(a, b) == IF a < b THEN b ELSE a
Min(a, b) == IF a < b THEN a ELSE b
Sgn(n) == IF n < 0 THEN -1 ELSE IF n > 0 THEN 1 ELSE 0

\* number of bits of n >= 0
BitLen(n) == CHOOSE k \in 0..31 : n < 2^k /\ (k = 0 \/ 2^(k-1) <= n)
\* number of trailing zero bits of n > 0
TrailingZeros(n) == CHOOSE k \in 0..30 : n % 2^k = 0 /\ n % 2^(k+1) # 0

IsNaN(a) == a.k = "nan"
IsInf(a) == a.k = "inf"
IsFin(a) == a.k = "fin"
IsZero(a) == a.k = "fin" /\ a.m = 0
\* position of the leading bit of a finite non-zero value
Top(a) == BitLen(Abs(a.m)) + a.e

\* m * 2^e with m stripped of its tz trailing zero bits; beyond the largest
\* binade it is an infinity
CanonTz(m, e, tz) ==
    IF BitLen(Abs(m)) + e > Emax + 1 THEN (IF m < 0 THEN NInf ELSE PInf)
    ELSE [k |-> "fin", m |-> m \div 2^tz, e |-> e + tz]

\* m * 2^e in canonical form
Canon(m, e) == IF m = 0 THEN Zero ELSE CanonTz(m, e, TrailingZeros(Abs(m)))

\* a / d for a >= 0, d > 0, rounded to the nearest whole number, ties to even
RoundHalfEven(a, d) ==
    IF 2 * (a % d) > d \/ (2 * (a % d) = d /\ (a \div d) % 2 = 1)
    THEN (a \div d) + 1
    ELSE a \div d

\* m * 2^e with the low `drop` bits of m rounded away
RndDrop(m, e, drop) ==
    IF drop > BitLen(Abs(m)) THEN Zero
    ELSE Canon(Sgn(m) * RoundHalfEven(Abs(m), 2^drop), e + drop)

\* m * 2^e rounded to Precision bits (fewer below the normal range),
\* ties to even
Rnd(m, e) ==
    IF m = 0 THEN Zero
    ELSE RndDrop(m, e, Max(Max(BitLen(Abs(m)) - Precision, Emin - e), 0))

FromInt(n) == Rnd(n, 0)

FNeg(a) == IF IsNaN(a) THEN NaN ELSE [a EXCEPT !.m = -a.m]

\* a < b for finite a and b
FinLt(a, b) ==
    IF Sgn(a.m) # Sgn(b.m) THEN Sgn(a.m) < Sgn(b.m)
    ELSE IF a.m = 0 THEN FALSE
    ELSE IF Top(a) # Top(b) THEN (a.m > 0) = (Top(a) < Top(b))
    ELSE a.m * 2^(a.e - Min(a.e, b.e)) < b.m * 2^(b.e - Min(a.e, b.e))

\* a < b; false when either is NaN
FLt(a, b) ==
    IF IsNaN(a) \/ IsNaN(b) THEN FALSE
    ELSE IF IsInf(a) THEN a.m < 0 /\ ~(IsInf(b) /\ b.m < 0)
    ELSE IF IsInf(b) THEN b.m > 0
    ELSE FinLt(a, b)
FGt(a, b) == FLt(b, a)
FLe(a, b) == FLt(a, b) \/ (~IsNaN(a) /\ a = b)

\* a + b for finite non-zero a and b, their significands aligned at 2^lo;
\* a term below a quarter of the other's last place does not change it
FinAdd(a, b, lo) ==
    IF Top(a) >= Top(b) + Precision + 2 THEN a
    ELSE IF Top(b) >= Top(a) + Precision + 2 THEN b
    ELSE Rnd(a.m * 2^(a.e - lo) + b.m * 2^(b.e - lo), lo)

FAdd(a, b) ==
    IF IsNaN(a) \/ IsNaN(b) THEN NaN
    ELSE IF IsInf(a) THEN (IF IsInf(b) /\ a.m # b.m THEN NaN ELSE a)
    ELSE IF IsInf(b) THEN b
    ELSE IF a.m = 0 THEN b
    ELSE IF b.m = 0 THEN a
    ELSE FinAdd(a, b, Min(a.e, b.e))
FSub(a, b) == FAdd(a, FNeg(b))
FAbs(a) == IF ~IsNaN(a) /\ a.m < 0 THEN FNeg(a) ELSE a
FMax(a, b) == IF FLt(a, b) THEN b ELSE a

FMul(a, b) ==
    IF IsNaN(a) \/ IsNaN(b) THEN NaN
    ELSE IF IsInf(a) \/ IsInf(b)
         THEN (IF IsZero(a) \/ IsZero(b) THEN NaN
               ELSE IF Sgn(a.m) = Sgn(b.m) THEN PInf ELSE NInf)
    ELSE Rnd(a.m * b.m, a.e + b.e)

\* n / d for n, d > 0 as a whole number with a sticky last bit
StickyDiv(n, d) == 2 * (n \div d) + (IF n % d = 0 THEN 0 ELSE 1)

\* a / b for finite non-zero a and b, the dividend scaled by 2^s
FinDiv(a, b, s) ==
    Rnd(Sgn(a.m) * Sgn(b.m) * StickyDiv(Abs(a.m) * 2^s, Abs(b.m)),
        a.e - b.e - s - 1)

FDiv(a, b) ==
    IF IsNaN(a) \/ IsNaN(b) THEN NaN
    ELSE IF IsInf(a)
         THEN (IF IsInf(b) THEN NaN
               ELSE IF (a.m < 0) = (b.m < 0) THEN PInf ELSE NInf)
    ELSE IF IsInf(b) THEN Zero
    ELSE IF b.m = 0
         THEN (IF a.m = 0 THEN NaN ELSE IF a.m > 0 THEN PInf ELSE NInf)
    ELSE IF a.m = 0 THEN Zero
    ELSE FinDiv(a, b, Precision + 2 + BitLen(Abs(b.m)) - BitLen(Abs(a.m)))

\* floor of the square root of n >= 0, one bit at a time from 2^b down
RECURSIVE ISqrtBits(_, _, _)
ISqrtBits(n, r, b) ==
    IF b < 0 THEN r
    ELSE ISqrtBits(n, IF (r + 2^b) * (r + 2^b) <= n THEN r + 2^b ELSE r, b - 1)

\* the square root of n as a whole number with a sticky last bit
StickySqrt(n, r) == 2 * r + (IF r * r = n THEN 0 ELSE 1)

\* sqrt(m * 2^e) for m > 0, with m scaled by 2^s and e - s even
FinSqrt(m, e, s) ==
    Rnd(StickySqrt(m * 2^s, ISqrtBits(m * 2^s, 0, 14)), ((e - s) \div 2) - 1)

FSqrt(a) ==
    IF IsNaN(a) THEN NaN
    ELSE IF IsZero(a) THEN Zero
    ELSE IF a.m < 0 THEN NaN
    ELSE IF IsInf(a) THEN PInf
    ELSE FinSqrt(a.m, a.e,
                 2 * Precision + 2 - BitLen(a.m)
                 + ((a.e - (2 * Precision + 2 - BitLen(a.m))) % 2))

\* F applied to the value of v: v is computed first, as a C++ statement
\* computes a local before the statements that use it
Bind(v, F(_)) == CHOOSE y \in {F(x) : x \in {v}} : TRUE

\* the float nearest to n/d, for whole numbers n and d that a float holds
Ratio(n, d) == FDiv(FromInt(n), FromInt(d))
One == [k |-> "fin", m |-> 1, e |-> 0]

\* the whole number nearest to a / 2^s for a >= 0, ties away from zero
RoundShift(a, s) == IF s > BitLen(a) THEN 0 ELSE (2 * a + 2^s) \div 2^(s + 1)

\* the whole number nearest to a finite value below 2^Precision
RoundToInt(a) ==
    IF a.e >= 0 THEN a.m * 2^a.e ELSE Sgn(a.m) * RoundShift(Abs(a.m), -a.e)

(***************************************************************************)
(* The C library functions the camera calls.  std::cos and std::sin reduce *)
(* the angle by a multiple k of pi/2 and evaluate a polynomial on the      *)
(* remainder; an angle too large for a float to tell its quadrant reduces  *)
(* to remainder 0.  std::pow is modelled for whole-number exponents (the   *)
(* scroll amounts the model feeds in), by repeated squaring.               *)
(***************************************************************************)
\* pi / 2
HalfPi == Rnd(843314857, -29)

\* the quadrant k of x, for q = x / (pi/2)
Quadrant(q) == IF Top(q) > Precision THEN 0 ELSE RoundToInt(q)

\* x - k * (pi/2)
Remainder(x, q) ==
    IF IsZero(x) \/ Top(q) > Precision THEN Zero
    ELSE FSub(x, FMul(FromInt(RoundToInt(q)), HalfPi))

\* r - r^3/6 + r^5/120 - r^7/5040
SinPoly(r, r2) ==
    FMul(r, FAdd(One, FMul(r2, FAdd(Rnd(-715827883, -32),
         FMul(r2, FAdd(Rnd(572662306, -36), FMul(r2, Rnd(-872628276, -42))))))))

\* 1 - r^2/2 + r^4/24 - r^6/720
CosPoly(r2) ==
    FAdd(One, FMul(r2, FAdd(Rnd(-1, -1),
         FMul(r2, FAdd(Rnd(715827883, -34), FMul(r2, Rnd(-763549742, -39)))))))

\* cosine and sine of the angle in quadrant k with remainder r
TrigQuadrant(k, c, s) ==
    CASE k = 0 -> [cos |-> c, sin |-> s]
      [] k = 1 -> [cos |-> FNeg(s), sin |-> c]
      [] k = 2 -> [cos |-> FNeg(c), sin |-> FNeg(s)]
      [] OTHER -> [cos |-> s, sin |-> FNeg(c)]

\* std::cos(x) and std::sin(x)
Trig(x) ==
    IF ~IsFin(x) THEN [cos |-> NaN, sin |-> NaN]
    ELSE Bind(FDiv(x, HalfPi), LAMBDA q :
         Bind(Remainder(x, q), LAMBDA r :
         Bind(FMul(r, r), LAMBDA r2 :
             TrigQuadrant(Quadrant(q) % 4, CosPoly(r2), SinPoly(r, r2)))))

RECURSIVE PowInt(_, _)
PowInt(b, n) ==
    IF n = 0 THEN One
    ELSE Bind(PowInt(b, n \div 2), LAMBDA h :
             IF n % 2 = 0 THEN FMul(h, h) ELSE FMul(FMul(h, h), b))

\* std::pow(b, y) for y >= 0
Pow(b, y) ==
    IF IsZero(y) THEN One
    ELSE IF IsNaN(b) \/ IsNaN(y) THEN NaN
    ELSE PowInt(b, RoundToInt(y))

(***************************************************************************)
(* glm: vec3 arithmetic, radians, cross, normalize, clamp.                 *)
(***************************************************************************)
Vec3(x, y, z) == [x |-> x, y |-> y, z |-> z]
VAdd(a, b) == Vec3(FAdd(a.x, b.x), FAdd(a.y, b.y), FAdd(a.z, b.z))
VSub(a, b) == Vec3(FSub(a.x, b.x), FSub(a.y, b.y), FSub(a.z, b.z))
VScale(s, a) == Vec3(FMul(s, a.x), FMul(s, a.y), FMul(s, a.z))
VDot(a, b) == FAdd(FAdd(FMul(a.x, b.x), FMul(a.y, b.y)), FMul(a.z, b.z))
VCross(a, b) ==
    Vec3(FSub(FMul(a.y, b.z), FMul(b.y, a.z)),
         FSub(FMul(a.z, b.x), FMul(b.z, a.x)),
         FSub(FMul(a.x, b.y), FMul(b.x, a.y)))
\* glm::normalize: v * inversesqrt(dot(v, v))
VNormalize(a) ==
    Bind(a, LAMBDA v : Bind(FDiv(One, FSqrt(VDot(v, v))), LAMBDA inv :
        VScale(inv, v)))
VFinite(a) == IsFin(a.x) /\ IsFin(a.y) /\ IsFin(a.z)

\* glm::radians: degrees * (pi / 180)
Radians(deg) == FMul(FromInt(deg), Rnd(599690565, -35))

\* a faulty clamp: the upper bound is never applied
ClampLowOnly(v, lo, hi) == IF FLt(v, lo) THEN lo ELSE v

\* std::clamp(v, lo, hi)
Clamp(v, lo, hi) == IF FLt(v, lo) THEN lo ELSE IF FLt(hi, v) THEN hi ELSE v

WorldUp == Vec3(Zero, One, Zero)

(***************************************************************************)
(* class OrbitCamera                                                       *)
(***************************************************************************)
\* the field initialisers of the class
DefaultCamera ==
    [target |-> Vec3(Zero, Zero, Zero),
     distance |-> FromInt(5),
     yaw |-> Radians(45),
     pitch |-> Radians(-25),
     orbitSpeed |-> Ratio(1, 100),
     panSpeed |-> Ratio(2, 1000),
     zoomSpeed |-> Ratio(9, 10)]

\* the camera as main sets it up before the first event
MainCamera ==
    [DefaultCamera EXCEPT !.target = Vec3(Zero, Zero, Zero),
                          !.distance = FromInt(6),
                          !.yaw = Radians(45),
                          !.pitch = Radians(-25)]

minDistance == Ratio(1, 2)
maxDistance == FromInt(100)
pitchLimit == Radians(89)

\* position() with the cosines and sines it calls for
positionAt(c, p, y) ==
    Bind(Vec3(FMul(FMul(c.distance, p.cos), y.cos),
              FMul(c.distance, p.sin),
              FMul(FMul(c.distance, p.cos), y.sin)), LAMBDA offset :
        VAdd(c.target, offset))

position(c) == positionAt(c, Trig(c.pitch), Trig(c.yaw))

\* glm::lookAt(eye, center, up), right-handed, as its 16 entries by column
LookAt(eye, center, up) ==
    Bind(VNormalize(VSub(center, eye)), LAMBDA f :
    Bind(VNormalize(VCross(f, up)), LAMBDA s :
    Bind(VCross(s, f), LAMBDA u :
        << s.x, u.x, FNeg(f.x), Zero,
           s.y, u.y, FNeg(f.y), Zero,
           s.z, u.z, FNeg(f.z), Zero,
           FNeg(VDot(s, eye)), FNeg(VDot(u, eye)), VDot(f, eye), One >>)))

viewMatrix(c) == Bind(position(c), LAMBDA eye : LookAt(eye, c.target, WorldUp))

\* faulty orbits: the clamp left out; the clamp's bounds swapped; yaw
\* clamped like pitch
orbitNoClamp(c, dxPixels, dyPixels) ==
    [c EXCEPT !.yaw = FAdd(c.yaw, FMul(dxPixels, c.orbitSpeed)),
              !.pitch = FAdd(c.pitch, FMul(dyPixels, c.orbitSpeed))]

orbitSwappedLimits(c, dxPixels, dyPixels) ==
    [c EXCEPT !.yaw = FAdd(c.yaw, FMul(dxPixels, c.orbitSpeed)),
              !.pitch = Clamp(FAdd(c.pitch, FMul(dyPixels, c.orbitSpeed)),
                              pitchLimit, FNeg(pitchLimit))]

orbitClampYaw(c, dxPixels, dyPixels) ==
    [c EXCEPT !.yaw = Clamp(FAdd(c.yaw, FMul(dxPixels, c.orbitSpeed)),
                            FNeg(pitchLimit), pitchLimit),
              !.pitch = Clamp(FAdd(c.pitch, FMul(dyPixels, c.orbitSpeed)),
                              FNeg(pitchLimit), pitchLimit)]

orbit(c, dxPixels, dyPixels) ==
    LET y == FAdd(c.yaw, FMul(dxPixels, c.orbitSpeed))
        p == FAdd(c.pitch, FMul(dyPixels, c.orbitSpeed))
        limit == pitchLimit
    IN  [c EXCEPT !.yaw = y, !.pitch = Clamp(p, FNeg(limit), limit)]

\* faulty scalings: one step per call whatever the scroll amount; a
\* multiplication in both directions; the two directions exchanged
zoomScaledStep(c, scrollY) ==
    IF FGt(scrollY, Zero)
    THEN FMul(c.distance, c.zoomSpeed)
    ELSE FDiv(c.distance, c.zoomSpeed)

zoomScaledMultiply(c, scrollY) ==
    IF FGt(scrollY, Zero)
    THEN FMul(c.distance, Pow(c.zoomSpeed, scrollY))
    ELSE FMul(c.distance, Pow(c.zoomSpeed, FNeg(scrollY)))

zoomScaledInverted(c, scrollY) ==
    IF FLt(scrollY, Zero)
    THEN FMul(c.distance, Pow(c.zoomSpeed, FNeg(scrollY)))
    ELSE FDiv(c.distance, Pow(c.zoomSpeed, scrollY))

\* distance after the multiply or divide, before the clamp
zoomScaled(c, scrollY) ==
    IF FGt(scrollY, Zero)
    THEN FMul(c.distance, Pow(c.zoomSpeed, scrollY))
    ELSE FDiv(c.distance, Pow(c.zoomSpeed, FNeg(scrollY)))

\* faulty zooms: the clamp left out; pitch clamped as well
zoomNoClamp(c, scrollY) == [c EXCEPT !.distance = zoomScaled(c, scrollY)]

zoomClampAll(c, scrollY) ==
    [c EXCEPT !.distance = Clamp(zoomScaled(c, scrollY), minDistance, maxDistance),
              !.pitch = Clamp(c.pitch, FNeg(pitchLimit), pitchLimit)]

zoom(c, scrollY) ==
    [c EXCEPT !.distance = Clamp(zoomScaled(c, scrollY), minDistance, maxDistance)]

\* the locals of pan: forward, right, up and scale
panBasis(c) ==
    Bind(position(c), LAMBDA pos :
    Bind(VNormalize(VSub(c.target, pos)), LAMBDA forward :
    Bind(VNormalize(VCross(forward, WorldUp)), LAMBDA right :
    Bind(VNormalize(VCross(right, forward)), LAMBDA up :
        [forward |-> forward, right |-> right, up |-> up,
         scale |-> FMul(c.distance, c.panSpeed)]))))

\* the displacement pan adds to target
panDelta(c, dxPixels, dyPixels) ==
    Bind(panBasis(c), LAMBDA b :
        VAdd(VScale(FMul(FNeg(dxPixels), b.scale), b.right),
             VScale(FMul(dyPixels, b.scale), b.up)))

\* a faulty pan: the displacement assigned to target, not added to it
panAssign(c, dxPixels, dyPixels) ==
    Bind(panDelta(c, dxPixels, dyPixels), LAMBDA d : [c EXCEPT !.target = d])

pan(c, dxPixels, dyPixels) ==
    Bind(panDelta(c, dxPixels, dyPixels), LAMBDA d :
        [c EXCEPT !.target = VAdd(c.target, d)])

(***************************************************************************)
(* The state: the camera, the last two calls made on it with the camera    *)
(* each found, and the value the last query returned.                      *)
(***************************************************************************)
VARIABLES cam, last, pre, last2, pre2, out, calls

(***************************************************************************)
(* The state of main: the InputState beside the camera, the cursor and the *)
(* mouse buttons as the window system holds them, the locals of the frame  *)
(* loop, and a record of what happened: the latest event, the calls it     *)
(* made on the camera, the C key as each frame sampled it.                 *)
(***************************************************************************)
VARIABLES input, cursor, held, polling, shouldClose, clip,
          ev, applied, drag, frames, steps

mainVars ==
    <<input, cursor, held, polling, shouldClose, clip,
      ev, applied, drag, frames, steps>>

vars == <<cam, last, pre, last2, pre2, out, calls, mainVars>>

Call(op, a, b) == [op |-> op, a |-> a, b |-> b]
NoCall == Call("none", Zero, Zero)

\* 2^40 pixels: a delta far beyond any screen
HugeDelta == Canon(1, 40)

\* the arguments the calls are made with: whole numbers of scroll steps
\* and of pixels, small and large, of both signs
ScrollInputs == {FromInt(n) : n \in {0, 1, -1, 3, -3, 40, -40}}
OrbitInputs ==
    {<<FromInt(d[1]), FromInt(d[2])>> :
        d \in {<<0, 0>>, <<30, -20>>, <<-7, 12>>, <<700, 1000>>, <<-700, -1000>>}}
PanInputs ==
    {<<FromInt(d[1]), FromInt(d[2])>> :
        d \in {<<0, 0>>, <<3, 4>>, <<-3, -4>>, <<7, 2>>, <<-7, -2>>}}
    \cup {<<HugeDelta, Zero>>}

\* the values a host assigns to the public fields: inside and outside the
\* ranges the mutators clamp to
HostInputs ==
    {<<"distance", FromInt(200)>>, <<"distance", Ratio(1, 4)>>,
     <<"pitch", Radians(100)>>, <<"zoomSpeed", Ratio(5, 4)>>}

\* longest sequence of frames and events explored
MaxSteps == 4

\* struct InputState without its camera, as constructed
DefaultInput ==
    [orbiting |-> FALSE, panning |-> FALSE, lastX |-> 0, lastY |-> 0]

\* the locals of main that the frame loop reads and writes
DefaultClip ==
    [clipEnabled |-> TRUE, clipNormal |-> Vec3(Zero, One, Zero),
     clipD |-> Zero, cWasDown |-> FALSE]

\* where the cursor is when the window opens: no event has reported it
InitialCursor == <<2, 3>>

NoEvent ==
    [kind |-> "none", button |-> "none", action |-> "none",
     x |-> 0, y |-> 0, fromX |-> 0, fromY |-> 0, first |-> FALSE]

MainInit ==
    /\ input = DefaultInput
    /\ cursor = InitialCursor
    /\ held = {}
    /\ polling = FALSE
    /\ shouldClose = FALSE
    /\ clip = DefaultClip
    /\ ev = NoEvent
    /\ applied = << >>
    /\ drag = [pressX |-> 0, pressY |-> 0, moveX |-> 0, moveY |-> 0,
               moved |-> FALSE]
    /\ frames = << >>
    /\ steps = 0

Init ==
    /\ MainInit
    /\ cam \in {DefaultCamera, MainCamera}
    /\ last = NoCall
    /\ pre = cam
    /\ last2 = NoCall
    /\ pre2 = cam
    /\ out = << >>
    /\ calls = 0

\* bookkeeping shared by every call
Record(c) ==
    /\ calls < MaxCalls
    /\ calls' = calls + 1
    /\ last' = c
    /\ pre' = cam
    /\ last2' = last
    /\ pre2' = pre
    /\ UNCHANGED mainVars

Orbit ==
    \E d \in OrbitInputs :
        /\ Record(Call("orbit", d[1], d[2]))
        /\ cam' = orbit(cam, d[1], d[2])
        /\ UNCHANGED out

Zoom ==
    \E s \in ScrollInputs :
        /\ Record(Call("zoom", s, Zero))
        /\ cam' = zoom(cam, s)
        /\ UNCHANGED out

Pan ==
    \E d \in PanInputs :
        /\ Record(Call("pan", d[1], d[2]))
        /\ cam' = pan(cam, d[1], d[2])
        /\ UNCHANGED out

Position ==
    /\ Record(Call("position", Zero, Zero))
    /\ out' = LET p == position(cam) IN <<p.x, p.y, p.z>>
    /\ UNCHANGED cam

ViewMatrix ==
    /\ Record(Call("viewMatrix", Zero, Zero))
    /\ out' = viewMatrix(cam)
    /\ UNCHANGED cam

\* the host writes a public field of the camera
HostAssign ==
    \E h \in HostInputs :
        /\ Record(Call("host", h[2], Zero))
        /\ cam' = [cam EXCEPT ![h[1]] = h[2]]
        /\ UNCHANGED out

Next == Orbit \/ Zoom \/ Pan \/ Position \/ ViewMatrix

\* the camera driven through its member functions only
Spec == Init /\ [][Next]_vars

NextHost == Next \/ HostAssign

\* the camera driven through its member functions and its public fields
SpecHost == Init /\ [][NextHost]_vars

(***************************************************************************)
(* main: the callbacks GLFW runs from glfwPollEvents and the key handling  *)
(* at the top of each frame.  Cursor positions are whole pixels.           *)
(***************************************************************************)
Buttons == {"left", "right", "middle"}
Actions == {"press", "release"}

\* the places the cursor visits
Positions == {<<2, 3>>, <<7, 1>>, <<4, 8>>}

\* the scroll steps of a wheel
WheelInputs == {1, -1}

\* the keys a frame finds held down
KeySets == {{}, {"C"}, {"C", "UP", "3"}, {"DOWN", "ESC"}}

\* faulty button callbacks: a press of one drag button ends the other drag;
\* the cursor not captured at a press
mouse_button_exclusive(in, button, action, cx, cy) ==
    [orbiting |-> IF button = "left" THEN action = "press"
                  ELSE IF button = "right" /\ action = "press" THEN FALSE
                  ELSE in.orbiting,
     panning |-> IF button = "right" THEN action = "press"
                 ELSE IF button = "left" /\ action = "press" THEN FALSE
                 ELSE in.panning,
     lastX |-> IF action = "press" THEN cx ELSE in.lastX,
     lastY |-> IF action = "press" THEN cy ELSE in.lastY]

mouse_button_no_capture(in, button, action, cx, cy) ==
    [orbiting |-> IF button = "left" THEN action = "press" ELSE in.orbiting,
     panning |-> IF button = "right" THEN action = "press" ELSE in.panning,
     lastX |-> in.lastX,
     lastY |-> in.lastY]

\* mouse_button_callback on InputState in, glfwGetCursorPos giving (cx, cy)
mouse_button_callback(in, button, action, cx, cy) ==
    [orbiting |-> IF button = "left" THEN action = "press" ELSE in.orbiting,
     panning |-> IF button = "right" THEN action = "press" ELSE in.panning,
     lastX |-> IF action = "press" THEN cx ELSE in.lastX,
     lastY |-> IF action = "press" THEN cy ELSE in.lastY]

\* the camera after the calls in the sequence cs, made in order
RECURSIVE ApplyCalls(_, _)
ApplyCalls(c, cs) ==
    IF cs = << >> THEN c
    ELSE ApplyCalls(IF Head(cs).op = "orbit" THEN orbit(c, Head(cs).a, Head(cs).b)
                    ELSE pan(c, Head(cs).a, Head(cs).b),
                    Tail(cs))

\* a faulty choice: the second test without its else
dragCallsBoth(in, dx, dy) ==
    (IF in.orbiting THEN <<Call("orbit", dx, dy)>> ELSE << >>)
    \o (IF in.panning THEN <<Call("pan", dx, dy)>> ELSE << >>)

\* the calls cursor_pos_callback makes on the camera for a delta
dragCalls(in, dx, dy) ==
    IF in.orbiting THEN <<Call("orbit", dx, dy)>>
    ELSE IF in.panning THEN <<Call("pan", dx, dy)>>
    ELSE << >>

\* cursor_pos_callback on InputState in and camera c: the InputState and the
\* camera it leaves, and the calls it made
cursor_pos_callback(in, c, xpos, ypos) ==
    Bind(dragCalls(in, FromInt(xpos - in.lastX), FromInt(ypos - in.lastY)),
         LAMBDA cs :
             [input |-> [in EXCEPT !.lastX = xpos, !.lastY = ypos],
              cam |-> ApplyCalls(c, cs),
              applied |-> cs])

scroll_callback(c, yoffset) == zoom(c, FromInt(yoffset))

\* a faulty toggle: it flips on every frame that finds C down
clipToggleLevel(enabled, wasDown, cDown) ==
    IF cDown THEN ~enabled ELSE enabled

\* clipEnabled after a frame that sampled C as cDown
clipToggle(enabled, wasDown, cDown) ==
    IF cDown /\ ~wasDown THEN ~enabled ELSE enabled

\* clipD after the UP and DOWN keys
clipDKeys(d, keys) ==
    Bind(IF "UP" \in keys THEN FAdd(d, Ratio(2, 100)) ELSE d, LAMBDA u :
        IF "DOWN" \in keys THEN FSub(u, Ratio(2, 100)) ELSE u)

\* clipNormal after the keys 1, 2 and 3, normalized
clipNormalKeys(n, keys) ==
    VNormalize(IF "3" \in keys THEN Vec3(Zero, Zero, One)
               ELSE IF "2" \in keys THEN Vec3(Zero, One, Zero)
               ELSE IF "1" \in keys THEN Vec3(One, Zero, Zero)
               ELSE n)

\* the locals of main after the key handling of one frame
frameKeys(cl, keys) ==
    [clipEnabled |-> clipToggle(cl.clipEnabled, cl.cWasDown, "C" \in keys),
     clipNormal |-> clipNormalKeys(cl.clipNormal, keys),
     clipD |-> clipDKeys(cl.clipD, keys),
     cWasDown |-> "C" \in keys]

\* bookkeeping shared by every frame and event
Step ==
    /\ steps < MaxSteps
    /\ steps' = steps + 1
    /\ pre' = cam
    /\ UNCHANGED <<last, last2, pre2, out, calls>>

\* one pass of the loop body, up to glfwPollEvents
Frame ==
    \E keys \in KeySets :
        /\ ~shouldClose
        /\ Step
        /\ clip' = frameKeys(clip, keys)
        /\ shouldClose' = ("ESC" \in keys)
        /\ polling' = TRUE
        /\ frames' = Append(frames, [cDown |-> "C" \in keys,
                                     clipEnabled |-> clip'.clipEnabled])
        /\ ev' = [NoEvent EXCEPT !.kind = "frame"]
        /\ applied' = << >>
        /\ UNCHANGED <<cam, input, cursor, held, drag>>

MouseButton ==
    \E button \in Buttons, action \in Actions :
        /\ polling
        /\ Step
        /\ input' = mouse_button_callback(input, button, action,
                                          cursor[1], cursor[2])
        /\ held' = IF action = "press" THEN held \cup {button}
                   ELSE held \ {button}
        /\ drag' = IF action = "press"
                   THEN [drag EXCEPT !.pressX = cursor[1], !.pressY = cursor[2],
                                     !.moved = FALSE]
                   ELSE drag
        /\ ev' = [NoEvent EXCEPT !.kind = "button", !.button = button,
                                 !.action = action]
        /\ applied' = << >>
        /\ UNCHANGED <<cam, cursor, polling, shouldClose, clip, frames>>

CursorPos ==
    \E p \in Positions \ {cursor} :
        \E r \in {cursor_pos_callback(input, cam, p[1], p[2])} :
            /\ polling
            /\ Step
            /\ input' = r.input
            /\ cam' = r.cam
            /\ applied' = r.applied
            /\ cursor' = p
            /\ drag' = [drag EXCEPT !.moveX = p[1], !.moveY = p[2],
                                    !.moved = TRUE]
            /\ ev' = [NoEvent EXCEPT
                          !.kind = "cursor", !.x = p[1], !.y = p[2],
                          !.first = ~drag.moved,
                          !.fromX = IF drag.moved THEN drag.moveX ELSE drag.pressX,
                          !.fromY = IF drag.moved THEN drag.moveY ELSE drag.pressY]
            /\ UNCHANGED <<held, polling, shouldClose, clip, frames>>

Scroll ==
    \E yoffset \in WheelInputs :
        /\ polling
        /\ Step
        /\ cam' = scroll_callback(cam, yoffset)
        /\ applied' = <<Call("zoom", FromInt(yoffset), Zero)>>
        /\ ev' = [NoEvent EXCEPT !.kind = "scroll", !.y = yoffset]
        /\ UNCHANGED <<input, cursor, held, polling, shouldClose, clip,
                       drag, frames>>

NextMain == Frame \/ MouseButton \/ CursorPos \/ Scroll

\* main: the camera as main sets it up, then frames and the events polled
\* at the end of each
InitMain == Init /\ cam = MainCamera

SpecMain == InitMain /\ [][NextMain]_vars

(***************************************************************************)
(* Properties.  last is the latest call and pre the camera it found; last2 *)
(* and pre2 are the call before it and the camera that one found.          *)
(***************************************************************************)
Mutators == {"orbit", "zoom", "pan"}
DistanceInRange(c) == FLe(minDistance, c.distance) /\ FLe(c.distance, maxDistance)
PitchInRange(c) == FLe(FNeg(pitchLimit), c.pitch) /\ FLe(c.pitch, pitchLimit)
ZeroDeltas == IsZero(last.a) /\ IsZero(last.b)

\* C1: driven through orbit, zoom and pan only (finite deltas), from the
\* constructed camera (distance 5) or the one main sets up (distance 6),
\* distance lies in [0.5, 100] in every state, whichever call came last.
C1_DistanceInRange == DistanceInRange(cam)

\* a zoom whose result the clamp raised to the minimum
C1_ZoomClampedToMin ==
    /\ last.op = "zoom"
    /\ FLt(zoomScaled(pre, last.a), minDistance)
    /\ cam.distance = minDistance

\* C2: driven through orbit, zoom and pan only (finite deltas), from the
\* constructed camera (pitch -25 degrees), pitch lies in [-89, +89] degrees
\* in every state, whichever call came last.
C2_PitchInRange == PitchInRange(cam)

\* an orbit whose pitch the clamp brought back to the limit
C2_OrbitClampedToLimit ==
    /\ last.op = "orbit"
    /\ FGt(FAdd(pre.pitch, FMul(last.b, pre.orbitSpeed)), pitchLimit)
    /\ cam.pitch = pitchLimit

\* C3 as stated: after any single orbit, zoom or pan, distance and pitch are
\* both in range, also when the host assigned one of them out of range.
C3_BothInRangeAfterAnyMutator ==
    last.op \in Mutators => DistanceInRange(cam) /\ PitchInRange(cam)

\* C3 amended: each mutator clamps only the field it writes.  After zoom,
\* distance is in [0.5, 100]; after orbit, pitch is in [-89, +89] degrees;
\* both also when the host assigned the field out of range before the call.
\* orbit and pan leave distance as they found it, zoom and pan leave pitch
\* as they found it: a value out of range stays out of range.
C3_EachMutatorClampsItsOwnField ==
    /\ last.op = "zoom" => DistanceInRange(cam)
    /\ last.op = "orbit" => PitchInRange(cam)
    /\ last.op \in {"orbit", "pan"} => cam.distance = pre.distance
    /\ last.op \in {"zoom", "pan"} => cam.pitch = pre.pitch

\* a zoom that found a distance the host had set out of range
C3_ZoomAfterHostOutOfRange ==
    /\ last2.op = "host"
    /\ last.op = "zoom"
    /\ ~DistanceInRange(pre)
    /\ DistanceInRange(cam)

\* C4 as stated: zoom(0) leaves every field unchanged in every camera state.
C4_ZoomZeroNoOp == last.op = "zoom" /\ IsZero(last.a) => cam = pre

\* C4 amended: zoom(0) leaves every field unchanged when distance lies in
\* [0.5, 100]; a distance outside is clamped into it.
C4_ZoomZeroNoOpInRange ==
    last.op = "zoom" /\ IsZero(last.a) /\ DistanceInRange(pre) => cam = pre

\* zoom(0) on a camera an earlier zoom has moved
C4_ZoomZeroAfterZoom ==
    /\ last.op = "zoom" /\ IsZero(last.a)
    /\ last2.op = "zoom" /\ pre.distance # pre2.distance
    /\ DistanceInRange(pre)
    /\ cam = pre

\* the right and up vectors and the scale pan computes are finite
PanBasisFinite(c) ==
    Bind(panBasis(c), LAMBDA b :
        VFinite(b.right) /\ VFinite(b.up) /\ IsFin(b.scale))

ZoomRoundTrip ==
    /\ last2.op = "zoom" /\ last.op = "zoom"
    /\ ~IsZero(last.a) /\ last.a = FNeg(last2.a)
    /\ DistanceInRange(pre2)
    /\ pre.distance = zoomScaled(pre2, last2.a)
    /\ cam.distance = zoomScaled(pre, last.a)

\* C6 as stated: zoom(s) then zoom(-s) restores the distance, when neither
\* result was changed by the clamp.
C6_ZoomRoundTripExact == ZoomRoundTrip => cam.distance = pre2.distance

\* C6 amended: zoom(s) then zoom(-s), neither result changed by the clamp,
\* restores the distance to within a relative error of four units of
\* roundoff (2^-22 for a float), not exactly: the product and the quotient
\* are each rounded.
C6_ZoomRoundTripWithinRounding ==
    ZoomRoundTrip =>
        FLe(FAbs(FSub(cam.distance, pre2.distance)),
            FMul(Canon(1, 2 - Precision), pre2.distance))

\* a round trip that moved the distance and brought it back
C6_ZoomRoundTripDone == ZoomRoundTrip /\ pre.distance # pre2.distance

\* the largest magnitude among the components of v
VMaxAbs(v) == FMax(FMax(FAbs(v.x), FAbs(v.y)), FAbs(v.z))

\* pan(dx, dy) then pan(-dx, -dy), not both zero
PanRoundTrip ==
    /\ last2.op = "pan" /\ last.op = "pan"
    /\ ~ZeroDeltas
    /\ last.a = FNeg(last2.a) /\ last.b = FNeg(last2.b)

\* no component of target exceeds distance, and distance and pitch are in
\* the ranges the mutators clamp to
TargetNear(c) ==
    /\ DistanceInRange(c)
    /\ PitchInRange(c)
    /\ IsFin(c.yaw)
    /\ FLe(VMaxAbs(c.target), c.distance)

C8_ZoomSaturates ==
    last.op = "zoom" /\ FLt(Zero, pre.zoomSpeed) /\ FLt(pre.zoomSpeed, One) =>
        /\ pre.distance = minDistance /\ FGt(last.a, Zero)
               => cam.distance = minDistance
        /\ pre.distance = maxDistance /\ FLt(last.a, Zero)
               => cam.distance = maxDistance

\* a zoom further in on a camera already at the minimum
C8_ZoomInAtMin ==
    /\ last.op = "zoom" /\ FGt(last.a, Zero)
    /\ FLt(pre.zoomSpeed, One)
    /\ pre.distance = minDistance
    /\ cam.distance = minDistance

\* C9: when pitch + dy*orbitSpeed exceeds +89 degrees, orbit leaves pitch at
\* exactly +89 degrees; when it is below -89 degrees, at exactly -89 degrees;
\* and yaw is yaw + dx*orbitSpeed in either case, neither clamped nor wrapped.
C9_OrbitSaturatesPitch ==
    last.op = "orbit" =>
        /\ FGt(FAdd(pre.pitch, FMul(last.b, pre.orbitSpeed)), pitchLimit)
               => cam.pitch = pitchLimit
        /\ FLt(FAdd(pre.pitch, FMul(last.b, pre.orbitSpeed)), FNeg(pitchLimit))
               => cam.pitch = FNeg(pitchLimit)
        /\ cam.yaw = FAdd(pre.yaw, FMul(last.a, pre.orbitSpeed))

\* an orbit that drove pitch below the lower limit and yaw beyond a full turn
C9_OrbitBelowLimit ==
    /\ last.op = "orbit"
    /\ FLt(FAdd(pre.pitch, FMul(last.b, pre.orbitSpeed)), FNeg(pitchLimit))
    /\ cam.pitch = FNeg(pitchLimit)
    /\ FLt(cam.yaw, FNeg(FMul(FromInt(4), HalfPi)))

\* C10: orbit changes only yaw and pitch, zoom only distance, pan only
\* target; none changes orbitSpeed, panSpeed or zoomSpeed; position() and
\* viewMatrix() change nothing.
C10_Frame ==
    /\ last.op = "orbit" => [cam EXCEPT !.yaw = pre.yaw, !.pitch = pre.pitch] = pre
    /\ last.op = "zoom" => [cam EXCEPT !.distance = pre.distance] = pre
    /\ last.op = "pan" => [cam EXCEPT !.target = pre.target] = pre
    /\ last.op \in {"position", "viewMatrix"} => cam = pre

\* a pan that moved target on a camera the host had given a pitch out of range
C10_PanAfterHost ==
    /\ last2.op = "host" /\ ~PitchInRange(pre)
    /\ last.op = "pan"
    /\ cam.target # pre.target

(***************************************************************************)
(* Properties of main.  ev is the latest frame or event, pre the camera it *)
(* found and applied the calls it made on the camera; held is the set of   *)
(* buttons whose latest event was a press.                                 *)
(***************************************************************************)

\* C11 as stated: no reachable InputState has orbiting and panning both
\* true.
C11_FlagsExclusive == ~(input.orbiting /\ input.panning)

\* C11 amended: the two flags are independent.  orbiting is true exactly
\* when the latest left-button event was a press and panning exactly when
\* the latest right-button event was a press, so both are true while both
\* buttons are held; a cursor move then calls orbit alone.
C11_FlagsFollowButtons ==
    /\ input.orbiting = ("left" \in held)
    /\ input.panning = ("right" \in held)
    /\ ev.kind = "cursor" /\ input.orbiting /\ input.panning =>
           Len(applied) = 1 /\ applied[1].op = "orbit"

\* both buttons pressed, neither released
C11_BothFlagsSet ==
    /\ ev.kind = "button"
    /\ held = {"left", "right"}
    /\ input.orbiting /\ input.panning

\* C12: a cursor-move event makes at most one call on the camera: orbit
\* when orbiting is set, otherwise pan when panning is set, otherwise none,
\* and the camera is then unchanged.
C12_OneMutatorPerCursorEvent ==
    ev.kind = "cursor" =>
        /\ Len(applied) <= 1
        /\ input.orbiting =>
               /\ Len(applied) = 1 /\ applied[1].op = "orbit"
               /\ cam = orbit(pre, applied[1].a, applied[1].b)
        /\ ~input.orbiting /\ input.panning =>
               /\ Len(applied) = 1 /\ applied[1].op = "pan"
               /\ cam = pan(pre, applied[1].a, applied[1].b)
        /\ ~input.orbiting /\ ~input.panning =>
               applied = << >> /\ cam = pre

\* a cursor move with both flags set: orbit was called, pan was not
C12_BothHeldOrbitsOnly ==
    /\ ev.kind = "cursor"
    /\ input.orbiting /\ input.panning
    /\ applied = <<Call("orbit", FromInt(ev.x - ev.fromX),
                                 FromInt(ev.y - ev.fromY))>>
    /\ cam # pre

\* C13: the delta a cursor-move event hands to orbit or pan is its position
\* minus the cursor position at the latest button press when it is the
\* first cursor move since that press, and its position minus the position
\* of the previous cursor-move event otherwise (ev.fromX, ev.fromY is that
\* reference position, ev.first tells which case it is).
C13_DragDelta ==
    ev.kind = "cursor" /\ applied # << >> =>
        /\ applied[1].a = FromInt(ev.x - ev.fromX)
        /\ applied[1].b = FromInt(ev.y - ev.fromY)

\* the first move of a drag started where the cursor sat when the window
\* opened, a place no event had reported
C13_FirstMoveAfterPress ==
    /\ ev.kind = "cursor" /\ ev.first
    /\ applied # << >>
    /\ <<ev.fromX, ev.fromY>> = InitialCursor
    /\ input.lastX = ev.x

\* clipEnabled before frame i
ClipBefore(i) ==
    IF i = 1 THEN DefaultClip.clipEnabled ELSE frames[i - 1].clipEnabled

\* C14: clipEnabled flips in a frame exactly when that frame samples C down
\* and the frame before it (if any) sampled it up: once per run of frames
\* with C down, on the run's first frame; events between frames leave it.
C14_ClipToggleOnEdge ==
    /\ \A i \in 1..Len(frames) :
           (frames[i].clipEnabled # ClipBefore(i))
               <=> (frames[i].cDown /\ (i = 1 \/ ~frames[i - 1].cDown))
    /\ clip.clipEnabled = ClipBefore(Len(frames) + 1)

\* C held over two frames, released for one, pressed again: two flips
C14_TwoRuns ==
    /\ Len(frames) = 4
    /\ frames[1].cDown /\ frames[2].cDown /\ ~frames[3].cDown /\ frames[4].cDown
    /\ ~frames[1].clipEnabled /\ ~frames[2].clipEnabled
    /\ ~frames[3].clipEnabled /\ frames[4].clipEnabled
=============================================================================
